---- MODULE Spec2Model ----
(***************************************************************************)
(* A model of src/util/cmd_line.c of PRRTE: the command line parser        *)
(* prte_cmd_line_parse, its default store callback check_store, and the    *)
(* option scanner (GNU getopt_long) it drives.                             *)
(*                                                                         *)
(* C strings are sequences of one-character strings, a NULL pointer is     *)
(* the value NULL, and a C array index i is position i+1 of a sequence.    *)
(***************************************************************************)
EXTENDS Integers, Sequences, FiniteSets, TLC

(***************************************************************************)
(* Bounds of the model.                                                    *)
(***************************************************************************)
\* the command line holds the program name and at most MaxArgs more tokens
MaxArgs == 3
\* the number of check_store calls of the store-only specification
MaxStores == 4
\* the tokens after the program name where Parse is called again and again
MaxSeqArgs == 2
\* the tokens after the program name of the command lines of options
MaxOptArgs == 4

(***************************************************************************)
(* C values.                                                               *)
(***************************************************************************)
NULL == <<"NULL">>
PRTE_SUCCESS == "PRTE_SUCCESS"
PRTE_ERR_SILENT == "PRTE_ERR_SILENT"
PRTE_ERR_BAD_PARAM == "PRTE_ERR_BAD_PARAM"
\* has_arg of struct option
PRTE_ARG_NONE == "no_argument"
PRTE_ARG_REQD == "required_argument"
PRTE_ARG_OPTIONAL == "optional_argument"
\* return codes of getopt_long that are no option character
EOF == "-1"
LONG0 == "0"
\* the two help topic files
CliHelpFile == "help-cli.txt"
ToolHelpFile == "helpfile"

(***************************************************************************)
(* String literals of the source.                                          *)
(***************************************************************************)
s_mca == <<"m","c","a">>
s_help == <<"h","e","l","p">>
s_h == <<"h">>
s_dash_h == <<"-","h">>
s_dash_help == <<"-","h","e","l","p">>
s_ddash_help == <<"-","-","h","e","l","p">>
s_version == <<"v","e","r","s","i","o","n">>
s_V == <<"V">>
s_verbose == <<"v","e","r","b","o","s","e">>
s_v == <<"v">>
s_usage == <<"u","s","a","g","e">>
s_unknown_option == <<"unknown-option">>
s_unrecognized_option == <<"unrecognized-option">>
s_short_no_long == <<"short-no-long">>
s_unregistered_option == <<"unregistered-option">>
s_null == <<"(","n","u","l","l",")">>

(***************************************************************************)
(* The caller's tables: the long option descriptors (the terminating       *)
(* sentinel is the end of the sequence) and the short option string.       *)
(***************************************************************************)
s_foo == <<"f","o","o">>
s_xmca == <<"x","m","c","a">>
s_num == <<"n","u","m">>
s_quiet == <<"q","u","i","e","t">>
s_zip == <<"z","i","p">>
s_bare == <<"b","a","r","e">>
s_wid == <<"w","i","d">>

myoptions ==
  << [name |-> s_help,    has_arg |-> PRTE_ARG_OPTIONAL, val |-> "h"],
     [name |-> s_version, has_arg |-> PRTE_ARG_NONE,     val |-> "V"],
     [name |-> s_foo,     has_arg |-> PRTE_ARG_REQD,     val |-> LONG0],
     [name |-> s_xmca,    has_arg |-> PRTE_ARG_REQD,     val |-> LONG0],
     [name |-> s_num,     has_arg |-> PRTE_ARG_REQD,     val |-> "n"],
     [name |-> s_quiet,   has_arg |-> PRTE_ARG_NONE,     val |-> "q"],
     [name |-> s_zip,     has_arg |-> PRTE_ARG_OPTIONAL, val |-> "z"],
     [name |-> s_bare,    has_arg |-> PRTE_ARG_NONE,     val |-> LONG0],
     [name |-> s_wid,     has_arg |-> PRTE_ARG_NONE,     val |-> "w"] >>

\* "h::Vn:qz::x": x is a short option no descriptor shares, and the short
\* code w of the descriptor wid is not registered here
shorts == <<"h",":",":","V","n",":","q","z",":",":","x">>

(***************************************************************************)
(* String helpers.                                                         *)
(***************************************************************************)
\* s[i] of a C string: the terminating '\0' is the empty string ""
CharAt(s, i) == IF i < Len(s) THEN s[i + 1] ELSE ""
\* s + k
Skip(s, k) == SubSeq(s, k + 1, Len(s))
\* argv[i] of a NULL-terminated array of argc strings
At(a, i) == IF i < Len(a) THEN a[i + 1] ELSE NULL
\* strncmp(a, b, n) == 0
StrNEq(a, b, n) == \A i \in 0 .. n - 1 : CharAt(a, i) = CharAt(b, i)
\* strchr(s, c) != NULL for a character c that is not '\0'
StrChr(s, c) == \E i \in 1 .. Len(s) : s[i] = c
\* index (from 0) of the first occurrence of c in s
StrIdx(s, c) == CHOOSE i \in 0 .. Len(s) - 1 : s[i + 1] = c /\ \A j \in 0 .. i - 1 : s[j + 1] # c

Min(a, b) == IF a < b THEN a ELSE b

(***************************************************************************)
(* The option scanner: GNU getopt_long, called at line 122.  Its state d   *)
(* holds the globals optind, optarg, optopt, the scanner's private cursor  *)
(* (nextchar, first_nonopt, last_nonopt, initialized, ordering), the       *)
(* argument array it permutes, and what the call returns (ret, longind).   *)
(***************************************************************************)
PERMUTE == "PERMUTE"
REQUIRE_ORDER == "REQUIRE_ORDER"

\* argv[optind] is no option: it does not start with '-', or is "-" alone
NONOPTION_P(a, i) == CharAt(At(a, i), 0) # "-" \/ CharAt(At(a, i), 1) = ""

\* swap the non-options [first_nonopt, last_nonopt) with the options
\* [last_nonopt, optind) that follow them
exchange(d) ==
  LET bottom == d.first_nonopt
      middle == d.last_nonopt
      top == d.optind
      a == d.argv
  IN [d EXCEPT !.argv = SubSeq(a, 1, bottom) \o SubSeq(a, middle + 1, top)
                          \o SubSeq(a, bottom + 1, middle) \o SubSeq(a, top + 1, Len(a)),
               !.first_nonopt = bottom + (top - middle),
               !.last_nonopt = top]

\* optind == 0 (or a first call) starts the scan over
getopt_initialize(d, posix) ==
  LET o == IF d.optind = 0 THEN 1 ELSE d.optind
  IN [d EXCEPT !.optind = o, !.first_nonopt = o, !.last_nonopt = o,
               !.nextchar = NULL,
               !.ordering = IF posix THEN REQUIRE_ORDER ELSE PERMUTE,
               !.initialized = TRUE]

\* the first index from i on that holds an option, or argc
SkipNonoptions(a, i) ==
  CHOOSE j \in i .. Len(a) :
     /\ j = Len(a) \/ ~NONOPTION_P(a, j)
     /\ \A k \in i .. j - 1 : NONOPTION_P(a, k)

\* handle the next short option character of nextchar
short_option(d0, argc) ==
  LET c == Head(d0.nextchar)
      nc == Tail(d0.nextchar)
      d == [d0 EXCEPT !.nextchar = nc,
                      !.optind = IF nc = <<>> THEN @ + 1 ELSE @]
  IN IF ~StrChr(shorts, c) \/ c = ":" \/ c = ";"
     THEN [d EXCEPT !.optopt = c, !.ret = "?"]
     ELSE LET n == StrIdx(shorts, c) IN
          IF CharAt(shorts, n + 1) # ":" THEN [d EXCEPT !.ret = c]
          ELSE IF CharAt(shorts, n + 2) = ":"
          THEN \* an optional argument: only the rest of this token
               IF nc # <<>>
               THEN [d EXCEPT !.optarg = nc, !.optind = @ + 1,
                              !.nextchar = NULL, !.ret = c]
               ELSE [d EXCEPT !.optarg = NULL, !.nextchar = NULL, !.ret = c]
          ELSE \* a required argument: the rest of this token or the next one
               IF nc # <<>>
               THEN [d EXCEPT !.optarg = nc, !.optind = @ + 1,
                              !.nextchar = NULL, !.ret = c]
               ELSE IF d.optind = argc
               THEN [d EXCEPT !.optopt = c, !.nextchar = NULL, !.ret = "?"]
               ELSE [d EXCEPT !.optarg = At(d.argv, d.optind), !.optind = @ + 1,
                              !.nextchar = NULL, !.ret = c]

\* nextchar is the text of a "--name" or "--name=value" token after the "--"
process_long_option(d, argc) ==
  LET nm == d.nextchar
      namelen == IF StrChr(nm, "=") THEN StrIdx(nm, "=") ELSE Len(nm)
      N == Len(myoptions)
      exact == {i \in 1 .. N : StrNEq(myoptions[i].name, nm, namelen)
                               /\ namelen = Len(myoptions[i].name)}
      abbrev == {i \in 1 .. N : StrNEq(myoptions[i].name, nm, namelen)}
      first(S) == CHOOSE i \in S : \A j \in S : i <= j
      ambiguous == /\ exact = {}
                   /\ abbrev # {}
                   /\ \E i \in abbrev :
                         \/ myoptions[i].has_arg # myoptions[first(abbrev)].has_arg
                         \/ myoptions[i].val # myoptions[first(abbrev)].val
  IN IF ambiguous
     THEN [d EXCEPT !.nextchar = <<>>, !.optind = @ + 1, !.optopt = LONG0, !.ret = "?"]
     ELSE IF abbrev = {}
     THEN [d EXCEPT !.nextchar = NULL, !.optind = @ + 1, !.optopt = LONG0, !.ret = "?"]
     ELSE LET idx == IF exact # {} THEN first(exact) ELSE first(abbrev)
              pfound == myoptions[idx]
              e == [d EXCEPT !.optind = @ + 1, !.nextchar = NULL]
          IN IF namelen < Len(nm)
             THEN IF pfound.has_arg # PRTE_ARG_NONE
                  THEN [e EXCEPT !.optarg = Skip(nm, namelen + 1),
                                 !.longind = idx - 1, !.ret = pfound.val]
                  ELSE [e EXCEPT !.optopt = pfound.val, !.ret = "?"]
             ELSE IF pfound.has_arg = PRTE_ARG_REQD
             THEN IF e.optind < argc
                  THEN [e EXCEPT !.optarg = At(e.argv, e.optind), !.optind = @ + 1,
                                 !.longind = idx - 1, !.ret = pfound.val]
                  ELSE [e EXCEPT !.optopt = pfound.val, !.ret = "?"]
             ELSE [e EXCEPT !.longind = idx - 1, !.ret = pfound.val]

\* nextchar is exhausted: advance to the next element of argv
getopt_advance(d0, argc) ==
  LET d1 == [d0 EXCEPT !.last_nonopt = Min(@, d0.optind),
                       !.first_nonopt = Min(@, d0.optind)]
      d2 == IF d1.ordering # PERMUTE THEN d1
            ELSE LET x == IF d1.first_nonopt # d1.last_nonopt /\ d1.last_nonopt # d1.optind
                          THEN exchange(d1)
                          ELSE IF d1.last_nonopt # d1.optind
                          THEN [d1 EXCEPT !.first_nonopt = d1.optind]
                          ELSE d1
                     j == SkipNonoptions(x.argv, x.optind)
                 IN [x EXCEPT !.optind = j, !.last_nonopt = j]
      d3 == IF d2.optind # argc /\ At(d2.argv, d2.optind) = <<"-", "-">>
            THEN LET e == [d2 EXCEPT !.optind = @ + 1]
                     f == IF e.first_nonopt # e.last_nonopt /\ e.last_nonopt # e.optind
                          THEN exchange(e)
                          ELSE IF e.first_nonopt = e.last_nonopt
                          THEN [e EXCEPT !.first_nonopt = e.optind]
                          ELSE e
                 IN [f EXCEPT !.last_nonopt = argc, !.optind = argc]
            ELSE d2
  IN IF d3.optind = argc
     THEN [d3 EXCEPT !.optind = IF d3.first_nonopt # d3.last_nonopt
                                THEN d3.first_nonopt ELSE @,
                     !.ret = EOF]
     ELSE IF NONOPTION_P(d3.argv, d3.optind)
     THEN \* only under REQUIRE_ORDER: the scan stops at the first non-option
          [d3 EXCEPT !.ret = EOF]
     ELSE IF CharAt(At(d3.argv, d3.optind), 1) = "-"
     THEN process_long_option([d3 EXCEPT !.nextchar = Skip(At(d3.argv, d3.optind), 2)], argc)
     ELSE short_option([d3 EXCEPT !.nextchar = Skip(At(d3.argv, d3.optind), 1)], argc)

\* one call of getopt_long(argc, argv, shorts, myoptions, &option_index)
getopt_long(d0, argc, posix) ==
  LET d1 == [d0 EXCEPT !.optarg = NULL]
      d2 == IF d1.optind = 0 \/ ~d1.initialized THEN getopt_initialize(d1, posix) ELSE d1
  IN IF argc < 1 THEN [d1 EXCEPT !.ret = EOF]
     ELSE IF d2.nextchar = NULL \/ d2.nextchar = <<>>
     THEN getopt_advance(d2, argc)
     ELSE short_option(d2, argc)

\* the scanner reads argv[optind] with optind past the terminating NULL
getopt_out_of_bounds(d, argc) ==
  /\ argc >= 1
  /\ d.optind # 0
  /\ d.initialized
  /\ d.nextchar = NULL \/ d.nextchar = <<>>
  /\ d.optind > argc

\* what a call of getopt_long may do: past the array the read is undefined,
\* and the process dies or the scanner reports the end of the options
scan_outcomes(d, argc, posix) ==
  IF getopt_out_of_bounds(d, argc)
  THEN { [d EXCEPT !.ret = "crash"], [d EXCEPT !.ret = EOF] }
  ELSE { getopt_long(d, argc, posix) }

(***************************************************************************)
(* The command lines of the model.                                         *)
(***************************************************************************)
s_prog == <<"p">>
s_k == <<"k">>
Vocabulary ==
  { <<"-","V">>, s_dash_h, s_help, s_h, s_dash_help, s_ddash_help,
    s_k, <<"\"","k","\"">>,
    <<"-","-","f","o","o">>, <<"-","-","x","m","c","a">>,
    <<"-","q">>, <<"-","n">>, <<"-","z","k">>, <<"-","x">>, <<"-","y">>,
    <<"-","-","q","u","i","e","t">>, <<"-","-","b","a","r","e">>,
    <<"-","-","w","i","d">> }
\* the command lines of the specification of repeated calls
SmallVocabulary ==
  { s_dash_h, s_k, <<"-","-","x","m","c","a">>, <<"-","x","q">>, <<"-","q">> }
\* the command lines of the specification of short and long forms
OptionVocabulary ==
  { <<"-","q">>, s_k, <<"-","z","k">>, <<"-","V">>, s_dash_h, <<"-","v">>,
    <<"-","-","z","i","p">>, <<"-","n","k">>, <<"-","-","n","u","m","=","j">> }

\* a command line: the program name and the tokens t
CommandLine(t) == <<s_prog>> \o t

(***************************************************************************)
(* External string utilities.                                              *)
(***************************************************************************)
\* one token of pmix_argv_copy_strip: a leading and a trailing quote go
StripQuotes(t) ==
  LET a == IF CharAt(t, 0) = "\"" THEN Skip(t, 1) ELSE t
  IN IF Len(a) > 0 /\ a[Len(a)] = "\"" THEN SubSeq(a, 1, Len(a) - 1) ELSE a
pmix_argv_copy_strip(a) == [i \in 1 .. Len(a) |-> StripQuotes(a[i])]
\* pmix_argv_copy(&argv[i]): NULL when nothing is copied
pmix_argv_copy(a, i) == SubSeq(a, i + 1, Len(a))

(***************************************************************************)
(* src/util/cmd_line.c                                                     *)
(***************************************************************************)
endswith(str, suffix) ==
  IF str = NULL \/ suffix = NULL THEN PRTE_ERR_BAD_PARAM
  ELSE IF Len(suffix) > Len(str) THEN PRTE_ERR_BAD_PARAM
  ELSE IF StrNEq(Skip(str, Len(str) - Len(suffix)), suffix, Len(suffix)) THEN PRTE_SUCCESS
  ELSE PRTE_ERR_BAD_PARAM

\* the constructor of prte_cli_result_t
ocon == [instances |-> <<>>, tail |-> NULL]

\* the constructor of prte_cli_item_t, then key = strdup(name)
icon(name) == [key |-> name, values |-> <<>>]

\* check_store without the lookup: every call makes a new item
check_store_always_new(name, option, res) ==
  [res EXCEPT !.instances =
     Append(@, [key |-> name, values |-> IF option # NULL THEN <<option>> ELSE <<>>])]

\* check_store putting a new item at the head of the list
check_store_prepend(name, option, res) ==
  LET found == {i \in 1 .. Len(res.instances) : res.instances[i].key = name}
  IN IF found # {}
     THEN LET i == CHOOSE i \in found : \A j \in found : i <= j
          IN IF option # NULL
             THEN [res EXCEPT !.instances[i].values = Append(@, option)]
             ELSE res
     ELSE [res EXCEPT !.instances =
             <<[key |-> name, values |-> IF option # NULL THEN <<option>> ELSE <<>>]>> \o @]

\* check_store where the last value of a key replaces the earlier ones
check_store_last_wins(name, option, res) ==
  LET found == {i \in 1 .. Len(res.instances) : res.instances[i].key = name}
  IN IF found # {}
     THEN LET i == CHOOSE i \in found : \A j \in found : i <= j
          IN IF option # NULL
             THEN [res EXCEPT !.instances[i].values = <<option>>]
             ELSE res
     ELSE [res EXCEPT !.instances =
             Append(@, [key |-> name, values |-> IF option # NULL THEN <<option>> ELSE <<>>])]

\* check_store that makes no item for a key stored without a value
check_store_skip_absent(name, option, res) ==
  LET found == {i \in 1 .. Len(res.instances) : res.instances[i].key = name}
  IN IF option = NULL THEN res
     ELSE IF found # {}
     THEN LET i == CHOOSE i \in found : \A j \in found : i <= j
          IN [res EXCEPT !.instances[i].values = Append(@, option)]
     ELSE [res EXCEPT !.instances = Append(@, [key |-> name, values |-> <<option>>])]

check_store(name, option, res) ==
  LET found == {i \in 1 .. Len(res.instances) : res.instances[i].key = name}
  IN IF found # {}
     THEN LET i == CHOOSE i \in found : \A j \in found : i <= j
          IN IF option # NULL
             THEN [res EXCEPT !.instances[i].values = Append(@, option)]
             ELSE res
     ELSE LET item == icon(name)
          IN [res EXCEPT !.instances =
                Append(@, IF option # NULL
                          THEN [item EXCEPT !.values = Append(@, option)]
                          ELSE item)]

(***************************************************************************)
(* What one pass through the switch of prte_cmd_line_parse does: it breaks *)
(* back to the loop or returns, after the store calls and the help         *)
(* requests listed, leaving optind at the value given.                     *)
(***************************************************************************)
Break(stores, oi) ==
  [exit |-> "break", stores |-> stores, helps |-> <<>>, optind |-> oi, ub |-> FALSE]
\* a return that renders nothing
Return_silent(file, topic, error, oi) ==
  [exit |-> "return", stores |-> <<>>, helps |-> <<>>, optind |-> oi, ub |-> FALSE]
Return(file, topic, error, oi) ==
  [exit |-> "return", stores |-> <<>>,
   helps |-> <<[file |-> file, topic |-> topic, error |-> error]>>,
   optind |-> oi, ub |-> FALSE]
Crash(oi) ==
  [exit |-> "crash", stores |-> <<>>, helps |-> <<>>, optind |-> oi, ub |-> TRUE]

\* while ('-' == *ptr) ++ptr;
StripDashes(t) ==
  LET k == CHOOSE k \in 0 .. Len(t) :
              /\ \A i \in 0 .. k - 1 : CharAt(t, i) = "-"
              /\ CharAt(t, k) # "-"
  IN Skip(t, k)

\* case 0 with the help literals of the short option path: no "-help"
case_0_no_dash_help(d, option_index, argc) ==
  LET name == myoptions[option_index + 1].name
  IN IF d.optarg # NULL /\ d.optarg \in {s_ddash_help, s_help, s_h, s_dash_h}
     THEN {Return(ToolHelpFile, name, FALSE, d.optind)}
     ELSE IF endswith(name, s_mca) = PRTE_SUCCESS /\ At(d.argv, d.optind) # NULL
     THEN {Break(<< <<name, At(d.argv, d.optind - 1) \o <<"=">>
                            \o At(d.argv, d.optind)>> >>, d.optind + 1)}
     ELSE {Break(<< <<name, d.optarg>> >>, d.optind)}

\* case 0 without the ++optind of the "mca" merge
case_0_mca_no_advance(d, option_index, argc) ==
  LET name == myoptions[option_index + 1].name
  IN IF d.optarg # NULL
        /\ d.optarg \in {s_ddash_help, s_dash_help, s_help, s_h, s_dash_h}
     THEN {Return(ToolHelpFile, name, FALSE, d.optind)}
     ELSE IF endswith(name, s_mca) = PRTE_SUCCESS /\ At(d.argv, d.optind) # NULL
     THEN {Break(<< <<name, At(d.argv, d.optind - 1) \o <<"=">>
                            \o At(d.argv, d.optind)>> >>, d.optind)}
     ELSE {Break(<< <<name, d.optarg>> >>, d.optind)}

\* case 0: a long option without a short code
case_0(d, option_index, argc) ==
  LET name == myoptions[option_index + 1].name
  IN IF d.optarg # NULL
        /\ d.optarg \in {s_ddash_help, s_dash_help, s_help, s_h, s_dash_h}
     THEN {Return(ToolHelpFile, name, FALSE, d.optind)}
     ELSE IF endswith(name, s_mca) = PRTE_SUCCESS
     THEN IF At(d.argv, d.optind) = NULL
          THEN \* "%s" of a NULL pointer, or of a slot past the array
               { Crash(d.optind),
                 [Break(<< <<name, At(d.argv, d.optind - 1) \o <<"=">> \o s_null>> >>,
                        d.optind + 1) EXCEPT !.ub = TRUE] }
          ELSE {Break(<< <<name, At(d.argv, d.optind - 1) \o <<"=">>
                                 \o At(d.argv, d.optind)>> >>, d.optind + 1)}
     ELSE {Break(<< <<name, d.optarg>> >>, d.optind)}

\* case 'h' without the loop that strips the leading dashes
case_h_no_strip(d, argc) ==
  IF d.optarg = NULL /\ At(d.argv, d.optind) # NULL
  THEN LET ptr == At(d.argv, d.optind)
       IN IF ptr = s_version \/ ptr = s_V
          THEN {Return(CliHelpFile, s_version, FALSE, d.optind)}
          ELSE IF ptr = s_verbose \/ ptr = s_v
          THEN {Return(CliHelpFile, s_verbose, FALSE, d.optind)}
          ELSE IF ptr = s_help \/ ptr = s_h
          THEN {Return(CliHelpFile, s_help, FALSE, d.optind)}
          ELSE IF \E n \in 1 .. Len(myoptions) : ptr = myoptions[n].name
          THEN {Return(ToolHelpFile, ptr, FALSE, d.optind)}
          ELSE {Return(CliHelpFile, s_unknown_option, TRUE, d.optind)}
  ELSE IF d.optarg = NULL
  THEN {Return(ToolHelpFile, s_usage, FALSE, d.optind)}
  ELSE {Return(CliHelpFile, s_unrecognized_option, TRUE, d.optind)}

\* case 'h'
case_h(d, argc) ==
  IF d.optarg = NULL /\ At(d.argv, d.optind) # NULL
  THEN LET ptr == StripDashes(At(d.argv, d.optind))
       IN IF ptr = s_version \/ ptr = s_V
          THEN {Return(CliHelpFile, s_version, FALSE, d.optind)}
          ELSE IF ptr = s_verbose \/ ptr = s_v
          THEN {Return(CliHelpFile, s_verbose, FALSE, d.optind)}
          ELSE IF ptr = s_help \/ ptr = s_h
          THEN {Return(CliHelpFile, s_help, FALSE, d.optind)}
          ELSE IF \E n \in 1 .. Len(myoptions) : ptr = myoptions[n].name
          THEN {Return(ToolHelpFile, ptr, FALSE, d.optind)}
          ELSE {Return(CliHelpFile, s_unknown_option, TRUE, d.optind)}
  ELSE IF d.optarg = NULL
  THEN {Return(ToolHelpFile, s_usage, FALSE, d.optind)}
  ELSE {Return(CliHelpFile, s_unrecognized_option, TRUE, d.optind)}

\* case 'V' that prints the version and goes on parsing
case_V_goes_on(d, argc) ==
  {[Return(ToolHelpFile, s_version, FALSE, d.optind) EXCEPT !.exit = "break"]}

\* case 'V'
case_V(d, argc) == {Return(ToolHelpFile, s_version, FALSE, d.optind)}

\* the default case with the two diagnostics taken for each other
case_default_swapped(d, argind, opt, argc) ==
  IF argind # 0 /\ CharAt(At(d.argv, argind), 0) # "-"
  THEN {Break(<<>>, d.optind)}
  ELSE IF ~StrChr(shorts, opt)
  THEN {Return(CliHelpFile, s_short_no_long, TRUE, d.optind)}
  ELSE LET n == StrIdx(shorts, opt)
           ptr == IF CharAt(shorts, n + 1) = ":"
                  THEN IF CharAt(shorts, n + 2) = ":"
                       THEN Skip(At(d.argv, d.optind - 1), 2)
                       ELSE d.optarg
                  ELSE NULL
           M == {m \in 1 .. Len(myoptions) : myoptions[m].val = opt}
       IN IF M = {}
          THEN {Return(CliHelpFile, s_unregistered_option, TRUE, d.optind)}
          ELSE LET m == CHOOSE m \in M : \A j \in M : m <= j
               IN IF ptr # NULL /\ ptr \in {s_ddash_help, s_dash_h, s_help, s_h}
                  THEN {Return(ToolHelpFile, myoptions[m].name, TRUE, d.optind)}
                  ELSE {Break(<< <<myoptions[m].name,
                                   IF myoptions[m].has_arg = PRTE_ARG_NONE
                                   THEN NULL ELSE ptr>> >>, d.optind)}

\* the default case storing under the short code, not the descriptor's name
case_default_short_key(d, argind, opt, argc) ==
  IF argind # 0 /\ CharAt(At(d.argv, argind), 0) # "-"
  THEN {Break(<<>>, d.optind)}
  ELSE IF ~StrChr(shorts, opt)
  THEN {Return(CliHelpFile, s_unregistered_option, TRUE, d.optind)}
  ELSE LET n == StrIdx(shorts, opt)
           ptr == IF CharAt(shorts, n + 1) = ":"
                  THEN IF CharAt(shorts, n + 2) = ":"
                       THEN Skip(At(d.argv, d.optind - 1), 2)
                       ELSE d.optarg
                  ELSE NULL
           M == {m \in 1 .. Len(myoptions) : myoptions[m].val = opt}
       IN IF M = {}
          THEN {Return(CliHelpFile, s_short_no_long, TRUE, d.optind)}
          ELSE LET m == CHOOSE m \in M : \A j \in M : m <= j
               IN IF ptr # NULL /\ ptr \in {s_ddash_help, s_dash_h, s_help, s_h}
                  THEN {Return(ToolHelpFile, myoptions[m].name, TRUE, d.optind)}
                  ELSE {Break(<< << <<opt>>,
                                   IF myoptions[m].has_arg = PRTE_ARG_NONE
                                   THEN NULL ELSE ptr>> >>, d.optind)}

\* default: a short option other than 'h' and 'V'
case_default(d, argind, opt, argc) ==
  IF argind # 0 /\ CharAt(At(d.argv, argind), 0) # "-"
  THEN {Break(<<>>, d.optind)}
  ELSE IF ~StrChr(shorts, opt)
  THEN {Return(CliHelpFile, s_unregistered_option, TRUE, d.optind)}
  ELSE LET n == StrIdx(shorts, opt)
           ptr == IF CharAt(shorts, n + 1) = ":"
                  THEN IF CharAt(shorts, n + 2) = ":"
                       THEN Skip(At(d.argv, d.optind - 1), 2)
                       ELSE d.optarg
                  ELSE NULL
           M == {m \in 1 .. Len(myoptions) : myoptions[m].val = opt}
       IN IF M = {}
          THEN {Return(CliHelpFile, s_short_no_long, TRUE, d.optind)}
          ELSE LET m == CHOOSE m \in M : \A j \in M : m <= j
               IN IF ptr # NULL /\ ptr \in {s_ddash_help, s_dash_h, s_help, s_h}
                  THEN {Return(ToolHelpFile, myoptions[m].name, TRUE, d.optind)}
                  ELSE {Break(<< <<myoptions[m].name,
                                   IF myoptions[m].has_arg = PRTE_ARG_NONE
                                   THEN NULL ELSE ptr>> >>, d.optind)}

\* the switch (opt)
switch(d, argind, opt, option_index, argc) ==
  IF opt = LONG0 THEN case_0(d, option_index, argc)
  ELSE IF opt = "h" THEN case_h(d, argc)
  ELSE IF opt = "V" THEN case_V(d, argc)
  ELSE case_default(d, argind, opt, argc)

\* the code after the loop writing the tail one token late
tail_after_loop_skip_first(d, argc, old) ==
  IF d.optind < argc THEN pmix_argv_copy(d.argv, d.optind + 1) ELSE old

\* lines 359-361, the code after the loop: the tail, left alone when no
\* token remains
tail_after_loop(d, argc, old) ==
  IF d.optind < argc THEN pmix_argv_copy(d.argv, d.optind) ELSE old

RECURSIVE mystore(_, _)
\* the store calls of one pass, through the default store
mystore(stores, res) ==
  IF stores = <<>> THEN res
  ELSE mystore(Tail(stores), check_store(Head(stores)[1], Head(stores)[2], res))

(***************************************************************************)
(* The state.                                                              *)
(***************************************************************************)
VARIABLES
  pc,               \* where the caller or prte_cmd_line_parse stands
  posixly_correct,  \* the environment variable POSIXLY_CORRECT is set
  pargv,            \* the caller's argument array
  argv,             \* the working copy (allocated while allocs > frees)
  argc,
  optind, optarg, optopt, opterr,   \* the globals of <getopt.h>
  getopt_data,      \* the scanner's private cursor
  argind, opt, option_index,        \* locals of prte_cmd_line_parse
  results,          \* the caller's prte_cli_result_t
  rc,               \* what prte_cmd_line_parse returned, NULL before
  storeLog,         \* the store calls of this Parse call, in order
  helpLog,          \* the prte_show_help_string calls of this Parse call
  scans,            \* the getopt_long calls of this Parse call
  tailWrites,       \* the assignments to results->tail of this Parse call
  allocs, frees,    \* pmix_argv_copy_strip and pmix_argv_free calls on argv
  entry,            \* results and the scanner's cursor when Parse was entered
  ub,               \* the call ran into undefined behaviour
  again             \* Parse was called before in this process

vars == <<pc, posixly_correct, pargv, argv, argc, optind, optarg, optopt, opterr,
          getopt_data, argind, opt, option_index, results, rc, storeLog, helpLog,
          scans, tailWrites, allocs, frees, entry, ub, again>>

\* the variables of one Parse call
parseVars == <<posixly_correct, pargv, argv, argc, optind, optarg, optopt, opterr,
               getopt_data, argind, opt, option_index, rc, helpLog,
               scans, tailWrites, allocs, frees, entry, ub, again>>

\* the scanner's view of the state
ScannerState ==
  [optind |-> optind, optarg |-> optarg, optopt |-> optopt,
   nextchar |-> getopt_data.nextchar,
   first_nonopt |-> getopt_data.first_nonopt,
   last_nonopt |-> getopt_data.last_nonopt,
   initialized |-> getopt_data.initialized,
   ordering |-> getopt_data.ordering,
   argv |-> argv, ret |-> EOF, longind |-> option_index]

PrivateCursor(d) ==
  [nextchar |-> d.nextchar, first_nonopt |-> d.first_nonopt,
   last_nonopt |-> d.last_nonopt, initialized |-> d.initialized,
   ordering |-> d.ordering]

\* a process that has not called getopt yet, and a constructed result
InitProcess ==
  /\ pc = "idle"
  /\ pargv = NULL
  /\ argv = NULL
  /\ argc = 0
  /\ optind = 1
  /\ optarg = NULL
  /\ optopt = "?"
  /\ opterr = 1
  /\ getopt_data = [nextchar |-> NULL, first_nonopt |-> 0, last_nonopt |-> 0,
                    initialized |-> FALSE, ordering |-> REQUIRE_ORDER]
  /\ argind = 0
  /\ opt = EOF
  /\ option_index = 0
  /\ results = ocon
  /\ rc = NULL
  /\ storeLog = <<>>
  /\ helpLog = <<>>
  /\ scans = 0
  /\ tailWrites = 0
  /\ allocs = 0
  /\ frees = 0
  /\ entry = [results |-> ocon, optind |-> 1,
              getopt_data |-> [nextchar |-> NULL, first_nonopt |-> 0, last_nonopt |-> 0,
                               initialized |-> FALSE, ordering |-> REQUIRE_ORDER]]
  /\ ub = FALSE
  /\ again = FALSE

\* the scanner permutes: POSIXLY_CORRECT is not set
Init == InitProcess /\ posixly_correct = FALSE

\* POSIXLY_CORRECT may be set
InitSeq == InitProcess /\ posixly_correct \in BOOLEAN

\* the reset with optind = 1, which does not make GNU getopt start over
ResetParserOne == [optind |-> 1, opterr |-> 0, optopt |-> LONG0, optarg |-> NULL]

\* lines 112-117: reset the parser
ResetParser == [optind |-> 0, opterr |-> 0, optopt |-> LONG0, optarg |-> NULL]

\* lines 94-117: the working copy, and the reset of the scanner's globals
ParseEnter(args, res) ==
  /\ pargv' = args
  /\ argv' = pmix_argv_copy_strip(args)
  /\ argc' = Len(args)
  /\ optind' = ResetParser.optind
  /\ opterr' = ResetParser.opterr
  /\ optopt' = ResetParser.optopt
  /\ optarg' = ResetParser.optarg
  /\ option_index' = 0
  /\ argind' = 0
  /\ opt' = EOF
  /\ results' = res
  /\ entry' = [results |-> res, optind |-> optind, getopt_data |-> getopt_data]
  /\ rc' = NULL
  /\ storeLog' = <<>>
  /\ helpLog' = <<>>
  /\ scans' = 0
  /\ tailWrites' = 0
  /\ allocs' = 1
  /\ frees' = 0
  /\ ub' = FALSE
  /\ pc' = "scan"
  /\ UNCHANGED <<posixly_correct, getopt_data>>

\* the first call of prte_cmd_line_parse in the process
Parse ==
  /\ pc = "idle"
  /\ \E k \in 0 .. MaxArgs : \E t \in [1 .. k -> Vocabulary] :
        ParseEnter(CommandLine(t), results)
  /\ UNCHANGED again

\* a later call, on a result the caller constructed for it
ParseAgain ==
  /\ pc \in {"idle", "done"}
  /\ \E k \in 0 .. MaxSeqArgs : \E t \in [1 .. k -> SmallVocabulary] :
        ParseEnter(CommandLine(t), ocon)
  /\ again' = (pc = "done")

\* lines 121-125: argind = optind; opt = getopt_long(...)
Scan ==
  /\ pc = "scan"
  /\ LET d == ScannerState
     IN \E r \in scan_outcomes(d, argc, posixly_correct) :
          /\ ub' = (ub \/ getopt_out_of_bounds(d, argc))
          /\ argind' = optind
          /\ opt' = r.ret
          /\ optind' = r.optind
          /\ optarg' = r.optarg
          /\ optopt' = r.optopt
          /\ option_index' = r.longind
          /\ argv' = r.argv
          /\ getopt_data' = PrivateCursor(r)
          /\ scans' = scans + 1
          /\ pc' = IF r.ret = "crash" THEN "crashed"
                   ELSE IF r.ret = EOF THEN "finish" ELSE "dispatch"
  /\ UNCHANGED <<posixly_correct, pargv, argc, opterr, results, rc, storeLog,
                 helpLog, tailWrites, allocs, frees, entry, again>>

\* the number of assignments a step makes to results->tail
TailWritten(old, new) == IF new.tail # old.tail THEN 1 ELSE 0

\* a pass through the switch that also writes the tail when it returns
switch_results_tail_on_return(o, res, d, n) ==
  IF o.exit = "return"
  THEN [mystore(o.stores, res) EXCEPT !.tail = tail_after_loop(d, n, @)]
  ELSE mystore(o.stores, res)

\* what a pass through the switch writes to the caller's result: only its
\* store calls (lines 150, 156, 328)
switch_results(o, res, d, n) == mystore(o.stores, res)

\* a switch whose returns do not release the working copy
argv_freed_never(o, n) == n

\* pmix_argv_free(argv) before each return of the switch (lines 140, 176,
\* 185, 199, 213, 226, 240, 249, 263, 320, 342, 355): n calls so far
argv_freed(o, n) == IF o.exit = "return" THEN n + 1 ELSE n

\* lines 126-357: one pass through the switch
Dispatch ==
  /\ pc = "dispatch"
  /\ \E o \in switch(ScannerState, argind, opt, option_index, argc) :
       /\ ub' = (ub \/ o.ub)
       /\ optind' = o.optind
       /\ results' = switch_results(o, results, ScannerState, argc)
       /\ tailWrites' = tailWrites + TailWritten(results, results')
       /\ storeLog' = storeLog \o o.stores
       /\ helpLog' = helpLog \o o.helps
       /\ IF o.exit = "return"
          THEN /\ frees' = argv_freed(o, frees)
               /\ rc' = PRTE_ERR_SILENT
               /\ pc' = "done"
          ELSE /\ UNCHANGED <<frees, rc>>
               /\ pc' = IF o.exit = "crash" THEN "crashed" ELSE "scan"
  /\ UNCHANGED <<posixly_correct, pargv, argv, argc, optarg, optopt, opterr, getopt_data,
                 argind, opt, option_index, scans, allocs, entry, again>>

\* lines 359-363: the tail, the release of the working copy, success
Finish ==
  /\ pc = "finish"
  /\ results' = [results EXCEPT !.tail = tail_after_loop(ScannerState, argc, @)]
  /\ tailWrites' = tailWrites + TailWritten(results, results')
  /\ frees' = frees + 1
  /\ rc' = PRTE_SUCCESS
  /\ pc' = "done"
  /\ UNCHANGED <<posixly_correct, pargv, argv, argc, optind, optarg, optopt, opterr,
                 getopt_data, argind, opt, option_index, storeLog, helpLog, scans,
                 allocs, entry, ub, again>>

\* one call of prte_cmd_line_parse in a fresh process
Next == Parse \/ Scan \/ Dispatch \/ Finish
Spec == Init /\ [][Next]_vars

\* calls of prte_cmd_line_parse one after the other in one process
NextSeq == ParseAgain \/ Scan \/ Dispatch \/ Finish
SpecSeq == InitSeq /\ [][NextSeq]_vars

\* the first call of prte_cmd_line_parse, on options in short and long form
ParseOptions ==
  /\ pc = "idle"
  /\ \E k \in 0 .. MaxOptArgs : \E t \in [1 .. k -> OptionVocabulary] :
        ParseEnter(CommandLine(t), results)
  /\ UNCHANGED again

\* one call of prte_cmd_line_parse on a command line of options
NextOpt == ParseOptions \/ Scan \/ Dispatch \/ Finish
SpecOpt == Init /\ [][NextOpt]_vars

\* a caller of the default store: any key, any value or none
StoreKeys == {s_foo, s_num, s_quiet}
StoreValues == {NULL, s_k, s_help}
StoreCall ==
  /\ pc = "idle"
  /\ Len(storeLog) < MaxStores
  /\ \E name \in StoreKeys, option \in StoreValues :
       /\ results' = check_store(name, option, results)
       /\ storeLog' = Append(storeLog, <<name, option>>)
  /\ UNCHANGED <<pc, parseVars>>

\* calls of check_store on a result that starts empty
NextStore == StoreCall
SpecStore == Init /\ [][NextStore]_vars

(***************************************************************************)
(* Properties of the default store (specification SpecStore).              *)
(***************************************************************************)
Keys(res) == [i \in 1 .. Len(res.instances) |-> res.instances[i].key]
Range(f) == {f[i] : i \in DOMAIN f}

RECURSIVE FirstEncounter(_)
\* the distinct keys of a sequence of store calls, each at its first call
FirstEncounter(log) ==
  IF log = <<>> THEN <<>>
  ELSE LET before == FirstEncounter(SubSeq(log, 1, Len(log) - 1))
           k == log[Len(log)][1]
       IN IF k \in Range(before) THEN before ELSE Append(before, k)

RECURSIVE PresentValues(_, _)
\* the values other than NULL stored under key k, in call order
PresentValues(log, k) ==
  IF log = <<>> THEN <<>>
  ELSE LET before == PresentValues(SubSeq(log, 1, Len(log) - 1), k)
           call == log[Len(log)]
       IN IF call[1] = k /\ call[2] # NULL THEN Append(before, call[2]) ELSE before

\* C1: after any sequence of check_store calls on a result that starts
\* empty, no two items of instances have the same key.
C1_UniqueKeys ==
  \A i, j \in 1 .. Len(results.instances) :
     i # j => results.instances[i].key # results.instances[j].key
\* a key was stored twice, and another key as well
C1_Witness ==
  /\ Len(results.instances) >= 2
  /\ \E i, j \in 1 .. Len(storeLog) : i < j /\ storeLog[i][1] = storeLog[j][1]

\* C2: the keys of instances, in order, are the distinct keys of the store
\* calls in the order of each key's first call.
C2_FirstEncounterOrder == Keys(results) = FirstEncounter(storeLog)
\* three keys, the first of them stored again after the others
C2_Witness ==
  /\ Len(results.instances) = 3
  /\ Len(storeLog) = 4
  /\ storeLog[4][1] = storeLog[1][1]

\* the values of every item are the values other than NULL stored under its
\* key, in call order, and every stored key has an item
C3_ValuesInOrder ==
  /\ \A i \in 1 .. Len(results.instances) :
        results.instances[i].values = PresentValues(storeLog, results.instances[i].key)
  /\ \A i \in 1 .. Len(storeLog) : storeLog[i][1] \in Range(Keys(results))
\* a call without a value for a key that has an item changes nothing
C3_AbsentChangesNothing ==
  (/\ Len(storeLog') = Len(storeLog) + 1
   /\ storeLog'[Len(storeLog')][2] = NULL
   /\ storeLog'[Len(storeLog')][1] \in Range(Keys(results)))
  => results' = results
\* C3: the values of every item are the values other than NULL stored under
\* its key, in call order (the order in which the options were matched), and
\* a store call without a value for a key that has an item changes nothing.
C3_ValueOrder == []C3_ValuesInOrder /\ [][C3_AbsentChangesNothing]_vars
\* a key holds two different values, and was then stored without a value
C3_Witness ==
  /\ \E i \in 1 .. Len(results.instances) :
        /\ Len(results.instances[i].values) = 2
        /\ results.instances[i].values[1] # results.instances[i].values[2]
        /\ storeLog[Len(storeLog)] = <<results.instances[i].key, NULL>>

(***************************************************************************)
(* Properties of one Parse call (specification Spec).                      *)
(***************************************************************************)
Descriptor(name) == CHOOSE o \in Range(myoptions) : o.name = name
HelpLiterals == {s_ddash_help, s_dash_help, s_help, s_h, s_dash_h}
Item(res, k) == CHOOSE it \in Range(res.instances) : it.key = k

\* C4: once an option of arity none was stored through the default store,
\* instances holds an item with its key and no values, in every later state
\* of the parse.
C4_FlagItemStays ==
  \A i \in 1 .. Len(storeLog) :
     Descriptor(storeLog[i][1]).has_arg = PRTE_ARG_NONE
     => /\ storeLog[i][1] \in Range(Keys(results))
        /\ Item(results, storeLog[i][1]).values = <<>>
\* a flag was stored first, another option with a value after it, and the
\* parse has ended
C4_Witness ==
  /\ pc = "done"
  /\ Len(storeLog) >= 2
  /\ Descriptor(storeLog[1][1]).has_arg = PRTE_ARG_NONE
  /\ storeLog[2][2] # NULL

\* C5: a Parse call writes results->tail at most once, and only when the
\* scanner reported exhaustion and the call returns success; until then, and
\* on every silent-error return, the tail is the one Parse was entered with.
C5_TailWrittenOnce ==
  /\ tailWrites <= 1
  /\ tailWrites = 1 => pc = "done" /\ rc = PRTE_SUCCESS /\ opt = EOF
  /\ (pc # "done" \/ rc = PRTE_ERR_SILENT) => results.tail = entry.results.tail
\* a silent-error return that left tokens unscanned, after a store
C5_Witness ==
  /\ pc = "done"
  /\ rc = PRTE_ERR_SILENT
  /\ optind < argc
  /\ storeLog # <<>>

\* no token of the working copy after the program name is an option
OnlyPositional(a) == \A i \in 1 .. Len(a) - 1 : NONOPTION_P(a, i)

\* C6: when Parse returns success the tail is the working array from the
\* final optind on when tokens remain there, and is left absent otherwise;
\* a command line of positional tokens only returns success, stores nothing
\* and has all its tokens as the tail, in order.
C6_TailIsRest ==
  pc = "done" =>
    /\ rc = PRTE_SUCCESS =>
         results.tail = IF optind < argc THEN SubSeq(argv, optind + 1, argc) ELSE NULL
    /\ OnlyPositional(pmix_argv_copy_strip(pargv)) =>
         /\ rc = PRTE_SUCCESS
         /\ results.instances = <<>>
         /\ results.tail = IF Len(pargv) > 1
                           THEN SubSeq(pmix_argv_copy_strip(pargv), 2, Len(pargv))
                           ELSE NULL
\* two different positional tokens and nothing else
C6_Witness ==
  /\ pc = "done"
  /\ rc = PRTE_SUCCESS
  /\ Len(pargv) = 3
  /\ OnlyPositional(pmix_argv_copy_strip(pargv))
  /\ pargv[2] # pargv[3]
  /\ results.tail = <<s_help, s_k>>

\* the pass through the switch after the scanner returned 'V'
C7_VersionStep ==
  (pc = "dispatch" /\ opt = "V") =>
     /\ pc' = "done"
     /\ rc' = PRTE_ERR_SILENT
     /\ helpLog' = Append(helpLog, [file |-> ToolHelpFile, topic |-> s_version,
                                    error |-> FALSE])
     /\ storeLog' = storeLog
     /\ scans' = scans
     /\ results' = results
\* C7: when the scanner has returned 'V', the next step requests the version
\* topic of the tool's help file and returns silent-error, with no store
\* call, no further getopt_long call and no write to the result or its tail,
\* whatever tokens follow.
C7_VersionStops == [][C7_VersionStep]_vars
\* -V after a stored option, with a token after it
C7_Witness ==
  /\ pc = "done"
  /\ opt = "V"
  /\ storeLog # <<>>
  /\ optind < argc

\* the pass through the switch after the scanner returned 0 with a help
\* literal as the argument
C8_LongHelpStep ==
  (pc = "dispatch" /\ opt = LONG0 /\ optarg \in HelpLiterals) =>
     /\ pc' = "done"
     /\ rc' = PRTE_ERR_SILENT
     /\ helpLog' = Append(helpLog, [file |-> ToolHelpFile,
                                    topic |-> myoptions[option_index + 1].name,
                                    error |-> FALSE])
     /\ storeLog' = storeLog
     /\ results' = results
\* C8: when the scanner has returned 0 for a long option whose argument is
\* one of "--help", "-help", "help", "h", "-h", the next step requests the
\* topic named after the option from the tool's help file and returns
\* silent-error without a store call, also for a name that ends with "mca".
C8_LongOptionHelp == [][C8_LongHelpStep]_vars
\* the "mca" option asked for its help with "-help"
C8_Witness ==
  /\ pc = "done"
  /\ opt = LONG0
  /\ optarg = s_dash_help
  /\ helpLog = <<[file |-> ToolHelpFile, topic |-> s_xmca, error |-> FALSE]>>

\* the scanner has matched the "mca" option given as --name A B
McaMatched ==
  /\ pc = "dispatch"
  /\ opt = LONG0
  /\ endswith(myoptions[option_index + 1].name, s_mca) = PRTE_SUCCESS
  /\ myoptions[option_index + 1].has_arg = PRTE_ARG_REQD
  /\ optarg = At(argv, optind - 1)
  /\ optarg \notin HelpLiterals
  /\ At(argv, optind) # NULL
\* the command line is the program name, --xmca, A and B
McaLine ==
  /\ Len(pargv) = 4
  /\ pargv[2] = <<"-", "-">> \o s_xmca
  /\ pargv[3] \notin HelpLiterals

\* the pass through the switch for the "mca" option
C9_McaStep ==
  McaMatched =>
     /\ pc' = "scan"
     /\ storeLog' = Append(storeLog, <<myoptions[option_index + 1].name,
                                       At(argv, optind - 1) \o <<"=">> \o At(argv, optind)>>)
     /\ optind' = optind + 1
     /\ helpLog' = helpLog
\* the whole call on the command line --xmca A B
C9_McaLineDone ==
  (pc = "done" /\ McaLine) =>
     /\ rc = PRTE_SUCCESS
     /\ storeLog = << <<s_xmca, pmix_argv_copy_strip(pargv)[3] \o <<"=">>
                                \o pmix_argv_copy_strip(pargv)[4]>> >>
     /\ helpLog = <<>>
     /\ scans = 2
     /\ results.tail = NULL
\* C9: for the "mca" option given as --name A B, with A no help literal, the
\* pass through the switch makes the one store call (name, "A=B") and leaves
\* optind past B; on the command line of just these tokens Parse makes that
\* store call only, scans B as no option and leaves the tail absent.
C9_McaMerge == [][C9_McaStep]_vars /\ []C9_McaLineDone
\* --xmca k -V: the -V is merged into the value, not scanned
C9_Witness ==
  /\ pc = "done"
  /\ McaLine
  /\ pargv[4] = <<"-", "V">>
  /\ results.instances = <<[key |-> s_xmca, values |-> << <<"k", "=", "-", "V">> >>]>>

(***************************************************************************)
(* Properties of calls one after the other (specification SpecSeq).        *)
(***************************************************************************)
\* the scanner of a process that has not called getopt_long yet, as the
\* reset of Parse leaves it
FirstCallScanner(args) ==
  [optind |-> ResetParser.optind, optarg |-> ResetParser.optarg,
   optopt |-> ResetParser.optopt,
   nextchar |-> NULL, first_nonopt |-> 0, last_nonopt |-> 0,
   initialized |-> FALSE, ordering |-> REQUIRE_ORDER,
   argv |-> pmix_argv_copy_strip(args), ret |-> EOF, longind |-> 0]

RECURSIVE ParseLoop(_, _, _, _)
\* the outcomes of the loop of Parse from scanner state d on
ParseLoop(d, res, helps, posix) ==
  LET n == Len(d.argv)
      End(status, r) == [status |-> status, results |-> r, helpLog |-> helps]
  IN UNION {
       IF r.ret = "crash" THEN {End("crash", res)}
       ELSE IF r.ret = EOF
       THEN {End(PRTE_SUCCESS, [res EXCEPT !.tail = tail_after_loop(r, n, @)])}
       ELSE UNION {
              IF o.exit = "return"
              THEN {[status |-> PRTE_ERR_SILENT, results |-> switch_results(o, res, r, n),
                     helpLog |-> helps \o o.helps]}
              ELSE IF o.exit = "crash" THEN {End("crash", res)}
              ELSE ParseLoop([r EXCEPT !.optind = o.optind],
                             switch_results(o, res, r, n), helps \o o.helps, posix)
              : o \in switch(r, d.optind, r.ret, r.longind, n) }
       : r \in scan_outcomes(d, n, posix) }

\* the outcomes Parse(args) can have as the first call of a process
ParseAlone(args, posix) == ParseLoop(FirstCallScanner(args), ocon, <<>>, posix)

\* C10: whatever an earlier call left in the scanner, a Parse call on a fresh
\* result ends with a status, a result and help requests that the same call
\* can end with as the first call of a process.
C10_NoLeakage ==
  pc \in {"done", "crashed"} =>
     [status |-> IF pc = "crashed" THEN "crash" ELSE rc,
      results |-> results, helpLog |-> helpLog]
        \in ParseAlone(pargv, posixly_correct)
\* a second call that found the scanner in the middle of a token of the
\* first, and stored an option
C10_Witness ==
  /\ pc = "done"
  /\ again
  /\ entry.getopt_data.nextchar = <<"q">>
  /\ entry.optind > 1
  /\ storeLog # <<>>

(***************************************************************************)
(* Help requests and the working copy of one Parse call (specification     *)
(* Spec).                                                                  *)
(***************************************************************************)
\* C11: a Parse call requests at most one help text, and none before the
\* step that returns; it returns silent-error exactly when it requested one,
\* success exactly when it requested none, and no other status.
C11_OneRender ==
  /\ Len(helpLog) <= 1
  /\ pc # "done" => helpLog = <<>>
  /\ pc = "done" =>
       /\ rc \in {PRTE_SUCCESS, PRTE_ERR_SILENT}
       /\ rc = PRTE_ERR_SILENT <=> Len(helpLog) = 1
       /\ rc = PRTE_SUCCESS <=> Len(helpLog) = 0
\* the usage text was requested after two options were stored
C11_Witness ==
  /\ pc = "done"
  /\ rc = PRTE_ERR_SILENT
  /\ Len(storeLog) = 2
  /\ helpLog = <<[file |-> ToolHelpFile, topic |-> s_usage, error |-> FALSE]>>

\* C12: the working copy made when Parse is entered is released exactly once
\* by the time Parse has returned, with success or with silent-error, and is
\* neither released before that nor released twice.
C12_FreedOnce ==
  /\ frees <= allocs
  /\ pc \in {"scan", "dispatch", "finish"} => allocs = 1 /\ frees = 0
  /\ pc = "done" => allocs = 1 /\ frees = 1
\* a return on the error path of a short option without a descriptor, after
\* a store
C12_Witness ==
  /\ pc = "done"
  /\ rc = PRTE_ERR_SILENT
  /\ frees = 1
  /\ storeLog # <<>>
  /\ helpLog = <<[file |-> CliHelpFile, topic |-> s_short_no_long, error |-> TRUE]>>

(***************************************************************************)
(* Properties of the default case of the switch (specification Spec).      *)
(***************************************************************************)
\* the scanner has returned a code other than 0, 'h' and 'V'
DefaultMatched == pc = "dispatch" /\ opt \notin {LONG0, "h", "V"}
\* the test of line 268 lets the match through
DashCheckPassed == argind = 0 \/ CharAt(At(argv, argind), 0) = "-"
\* the descriptors that share the code c
Sharing(c) == {m \in 1 .. Len(myoptions) : myoptions[m].val = c}
\* the name of the first descriptor that shares the code c
LongName(c) == myoptions[CHOOSE m \in Sharing(c) : \A j \in Sharing(c) : m <= j].name
\* the code c is followed by two colons, or by one, in the short option string
OptionalAttached(c) ==
  StrChr(shorts, c) /\ CharAt(shorts, StrIdx(shorts, c) + 1) = ":"
                    /\ CharAt(shorts, StrIdx(shorts, c) + 2) = ":"
RequiredArgument(c) ==
  StrChr(shorts, c) /\ CharAt(shorts, StrIdx(shorts, c) + 1) = ":"
                    /\ CharAt(shorts, StrIdx(shorts, c) + 2) # ":"
\* the token the scanner matched the option from: the one it is still in the
\* middle of, or the one before the separate argument, or the one before
\* optind
MatchedToken ==
  IF getopt_data.nextchar # NULL /\ getopt_data.nextchar # <<>> THEN At(argv, optind)
  ELSE IF optarg # NULL /\ optarg = At(argv, optind - 1) THEN At(argv, optind - 2)
  ELSE At(argv, optind - 1)
\* the argument of the matched short option
ShortArgument ==
  IF OptionalAttached(opt) THEN Skip(At(argv, optind - 1), 2)
  ELSE IF RequiredArgument(opt) THEN optarg
  ELSE NULL

\* the pass through the switch for a short option that has a descriptor and
\* a help literal as its argument
C13_HelpStep ==
  (/\ DefaultMatched
   /\ DashCheckPassed
   /\ StrChr(shorts, opt)
   /\ Sharing(opt) # {}
   /\ ShortArgument \in HelpLiterals) =>
     /\ pc' = "done"
     /\ rc' = PRTE_ERR_SILENT
     /\ helpLog' = Append(helpLog, [file |-> ToolHelpFile, topic |-> LongName(opt),
                                    error |-> TRUE])
     /\ storeLog' = storeLog
\* C13: when the scanner has returned a short code other than 'h' and 'V'
\* that a descriptor shares, and the option's argument is one of "--help",
\* "-help", "help", "h", "-h", the next step requests the topic named after
\* the option and returns silent-error without a store call.
C13_ShortOptionHelp == [][C13_HelpStep]_vars

\* the pass through the switch for an option matched from a token that
\* begins with a dash
C14_SkipStep ==
  (DefaultMatched /\ CharAt(MatchedToken, 0) = "-") =>
     ~(pc' = "scan" /\ storeLog' = storeLog /\ helpLog' = helpLog)
\* C14: a match of a code other than 0, 'h' and 'V' is skipped, with no
\* store call and no help request, only when the token the option was
\* matched from does not begin with a dash, also when the scanner skipped
\* positional tokens to reach the option.
C14_DashCheck == [][C14_SkipStep]_vars

\* the help literals of the short option path
ShortHelpLiterals == {s_ddash_help, s_dash_h, s_help, s_h}
\* the step returns silent-error after the one help request given, with no
\* store call
ReturnsWith(file, topic) ==
  /\ pc' = "done"
  /\ rc' = PRTE_ERR_SILENT
  /\ helpLog' = Append(helpLog, [file |-> file, topic |-> topic, error |-> TRUE])
  /\ storeLog' = storeLog
\* the step makes exactly one store call, under the name of the first
\* descriptor sharing the code, and goes back to the scanner
StoresOnce ==
  /\ pc' = "scan"
  /\ Len(storeLog') = Len(storeLog) + 1
  /\ SubSeq(storeLog', 1, Len(storeLog)) = storeLog
  /\ storeLog'[Len(storeLog')][1] = LongName(opt)
  /\ helpLog' = helpLog

\* the pass through the switch for a match that passes the dash check
C15_DispatchStep ==
  (DefaultMatched /\ DashCheckPassed) =>
     IF StrChr(shorts, opt) /\ Sharing(opt) # {}
     THEN IF ShortArgument \in ShortHelpLiterals
          THEN ReturnsWith(ToolHelpFile, LongName(opt))
          ELSE StoresOnce
     ELSE IF StrChr(shorts, opt)
     THEN ReturnsWith(CliHelpFile, s_short_no_long)
     ELSE ReturnsWith(CliHelpFile, s_unregistered_option)
\* C15: for a matched code other than 0, 'h' and 'V' that passes the dash
\* check: a code of the short option string that a descriptor shares makes
\* exactly one store call and scanning goes on, unless the option's argument
\* is one of "--help", "-h", "help", "h", and then the option's help is
\* requested and silent-error returned; a code of the short option string
\* that no descriptor shares gets the "short-no-long" diagnostic and
\* silent-error; a code that is not in the short option string gets the
\* "unregistered-option" diagnostic and silent-error; no store call is made
\* on the three returns.
C15_ShortDispatch == [][C15_DispatchStep]_vars
\* the long option --wid, whose code w is not in the short option string,
\* after a store
C15_Witness ==
  /\ pc = "done"
  /\ opt = "w"
  /\ storeLog # <<>>
  /\ helpLog = <<[file |-> CliHelpFile, topic |-> s_unregistered_option, error |-> TRUE]>>

\* the pass through the switch as the claim has it, one store call whatever
\* the argument is
C15_OriginalStep ==
  (DefaultMatched /\ DashCheckPassed) =>
     IF StrChr(shorts, opt) /\ Sharing(opt) # {}
     THEN StoresOnce
     ELSE IF StrChr(shorts, opt)
     THEN ReturnsWith(CliHelpFile, s_short_no_long)
     ELSE ReturnsWith(CliHelpFile, s_unregistered_option)
\* C15 as stated: every code of the short option string that a descriptor
\* shares makes exactly one store call and scanning goes on.
C15_AlwaysStores == [][C15_OriginalStep]_vars

(***************************************************************************)
(* Properties of options in short and long form (specification SpecOpt).   *)
(***************************************************************************)
\* the value v is what the claim gives the matched code: the scanner's
\* argument for a required argument, the text after the "-c" of the token
\* for an optional one, nothing for a code without a colon or a descriptor
\* of arity none
ValueByArity(v) ==
  IF Descriptor(LongName(opt)).has_arg = PRTE_ARG_NONE THEN v = NULL
  ELSE IF RequiredArgument(opt) THEN v = optarg
  ELSE IF OptionalAttached(opt) THEN MatchedToken = <<"-", opt>> \o v
  ELSE v = NULL
\* the pass through the switch that stores a short code
C16_ValueStep ==
  (/\ DefaultMatched
   /\ DashCheckPassed
   /\ StrChr(shorts, opt)
   /\ Sharing(opt) # {}
   /\ pc' = "scan") =>
     /\ Len(storeLog') = Len(storeLog) + 1
     /\ ValueByArity(storeLog'[Len(storeLog')][2])
\* C16: the value passed to the store callback for a matched short code is
\* the scanner's argument when the code takes a required argument, the text
\* of the option's token after its two characters "-c" when the code takes
\* an optional argument (never a following token), and absent when the code
\* has no colon or the descriptor is of arity none.
C16_ValueByArity == [][C16_ValueStep]_vars

RECURSIVE Dashless(_)
\* a token without its leading dashes
Dashless(t) == IF t # <<>> /\ Head(t) = "-" THEN Dashless(Tail(t)) ELSE t
\* the help request that the token after the help option selects
HelpTopic(tok) ==
  IF tok = NULL THEN [file |-> ToolHelpFile, topic |-> s_usage, error |-> FALSE]
  ELSE LET t == Dashless(tok)
       IN IF t \in {s_version, s_V}
          THEN [file |-> CliHelpFile, topic |-> s_version, error |-> FALSE]
          ELSE IF t \in {s_verbose, s_v}
          THEN [file |-> CliHelpFile, topic |-> s_verbose, error |-> FALSE]
          ELSE IF t \in {s_help, s_h}
          THEN [file |-> CliHelpFile, topic |-> s_help, error |-> FALSE]
          ELSE IF t \in {myoptions[n].name : n \in 1 .. Len(myoptions)}
          THEN [file |-> ToolHelpFile, topic |-> t, error |-> FALSE]
          ELSE [file |-> CliHelpFile, topic |-> s_unknown_option, error |-> TRUE]
\* the pass through the switch after the scanner returned 'h' without an
\* attached argument
C17_HelpStep ==
  (pc = "dispatch" /\ opt = "h" /\ optarg = NULL) =>
     /\ pc' = "done"
     /\ rc' = PRTE_ERR_SILENT
     /\ helpLog' = <<HelpTopic(At(argv, optind))>>
     /\ storeLog' = storeLog
\* C17: when the scanner has returned 'h' with no attached argument, the
\* next step requests exactly one topic, chosen from the token after the
\* option with its leading dashes stripped: "version"/"V" the version
\* topic, "verbose"/"v" the verbose topic, "help"/"h" the help topic, the
\* name of a descriptor that option's topic of the tool's help file, any
\* other token the unknown-option error, no token the usage topic; it
\* returns silent-error and makes no store call.
C17_HelpTopic == [][C17_HelpStep]_vars
\* help asked for the option zip in its long form, after a store
C17_Witness ==
  /\ pc = "done"
  /\ opt = "h"
  /\ storeLog # <<>>
  /\ helpLog = <<[file |-> ToolHelpFile, topic |-> s_zip, error |-> FALSE]>>

\* C18: when Parse has returned silent-error, the store calls it made are
\* those of the matches before the terminating match, one for each and
\* nothing else, and the items of these calls are in the result in the order
\* of the calls.
C18_NoRollback ==
  (pc = "done" /\ rc = PRTE_ERR_SILENT) =>
     /\ Len(storeLog) = scans - 1
     /\ Keys(results) = FirstEncounter(storeLog)
     /\ \A i \in 1 .. Len(results.instances) :
           results.instances[i].values = PresentValues(storeLog, results.instances[i].key)

\* the pass through the switch that makes a store call
C20_KeyStep ==
  (pc = "dispatch" /\ storeLog' # storeLog) =>
     storeLog' = Append(storeLog,
                        <<IF opt = LONG0 THEN myoptions[option_index + 1].name
                          ELSE LongName(opt),
                          storeLog'[Len(storeLog')][2]>>)
\* every key is the name of a descriptor, and each key has one item that
\* holds the values stored under it, in the order of the calls
C20_OneItemPerName ==
  /\ \A i \in 1 .. Len(storeLog) :
        storeLog[i][1] \in {myoptions[n].name : n \in 1 .. Len(myoptions)}
  /\ Keys(results) = FirstEncounter(storeLog)
  /\ \A i \in 1 .. Len(results.instances) :
        results.instances[i].values = PresentValues(storeLog, results.instances[i].key)
\* C20: the key of every store call is the name of a descriptor of the
\* table, the one matched in the long form or the first one that shares the
\* code returned, never the short code; so the short and the long form of
\* an option are stored under one key, and the default store keeps one item
\* with the values of both forms in command-line order.
C20_CanonicalKey == []C20_OneItemPerName /\ [][C20_KeyStep]_vars
\* -nk and then --num=j: one item num with the values k and j
C20_Witness ==
  /\ pc = "done"
  /\ rc = PRTE_SUCCESS
  /\ pargv = <<s_prog, <<"-","n","k">>, <<"-","-","n","u","m","=","j">>, s_k>>
  /\ results.instances = <<[key |-> s_num, values |-> <<s_k, <<"j">>>>]>>

(***************************************************************************)
(* The indices of the working array (specification Spec).                  *)
(***************************************************************************)
\* the pass through the switch will take the "mca" merge of lines 145-153
McaMerge ==
  /\ pc = "dispatch"
  /\ opt = LONG0
  /\ optarg \notin HelpLiterals
  /\ endswith(myoptions[option_index + 1].name, s_mca) = PRTE_SUCCESS
\* C19: during a Parse call the cursor optind stays within 0..argc, and the
\* elements of the working array that the switch reads are tokens, at an
\* index below argc: argv[argind] of the dash check, argv[optind-1] of the
\* short option path, and argv[optind-1] and argv[optind] of the "mca"
\* merge, which then moves the cursor one further.
C19_CursorInBounds ==
  pc \in {"scan", "dispatch", "finish", "done"} =>
     /\ optind \in 0 .. argc
     /\ ~ub
     /\ McaMerge => optind - 1 < argc /\ optind < argc
     /\ DefaultMatched => argind < argc /\ optind - 1 < argc

====
